---- MODULE Spec2Model ----
(***************************************************************************)
(* Model of the page-object test suite pytest_anubrata.                    *)
(*                                                                         *)
(* Part 1: CollectionPage.find_product_by_name, the incremental-scroll     *)
(* product search, run against a lazily loading collection page.  The      *)
(* browser and the page are the environment: the page loads its items in   *)
(* batches when it is scrolled to its bottom, may re-render its grid, and  *)
(* any node handle of a query may have gone stale when it is used.         *)
(***************************************************************************)
EXTENDS Integers, Sequences, FiniteSets, TLC

\* ------------------------------------------------------------------ bounds

\* Number of batches the page can load.
NumBatches == 2

\* Number of times the page may re-render its grid during one search.
MaxRerenders == 1

\* ------------------------------------------------------- program constants

\* collectionpage.py:127  scroll_amount = 400
scroll_amount == 400

\* collectionpage.py:128  max_scrolls = 100
max_scrolls == 100

\* collectionpage.py:194  current_scroll + 500 >= new_height
bottom_proximity == 500

\* ------------------------------------------------------------ page content

\* An item node of the grid: whether it holds a title element, and the raw
\* text of that element.
ItemA  == [has |-> TRUE,  title |-> <<"a">>]
ItemPA == [has |-> TRUE,  title |-> <<" ", "a", " ">>]
ItemB  == [has |-> TRUE,  title |-> <<"b">>]
ItemNT == [has |-> FALSE, title |-> <<>>]

\* The batches a page may serve.
BatchKinds == { <<ItemB>>, <<ItemNT, ItemA>>, <<ItemPA, ItemA>> }

\* The names searched for.
ProductNames == { <<"a">> }

\* Page layouts: viewport height, height of the page without items, height
\* one batch adds (pixels).
Pages ==
  { [viewport |-> 400,  base |-> 200, batch |-> 600],
    [viewport |-> 1000, base |-> 200, batch |-> 600],
    [viewport |-> 1000, base |-> 200, batch |-> 45000] }

Min(a, b) == IF a <= b THEN a ELSE b
Max(a, b) == IF a >= b THEN a ELSE b

\* ------------------------------------------------------------- str.strip()

RECURSIVE LStrip(_)
LStrip(s) ==
  IF s = <<>> THEN s
  ELSE IF Head(s) = " " THEN LStrip(Tail(s)) ELSE s

RECURSIVE RStrip(_)
RStrip(s) ==
  IF s = <<>> THEN s
  ELSE IF s[Len(s)] = " " THEN RStrip(SubSeq(s, 1, Len(s) - 1)) ELSE s

\* Mutant: strip() left out.
StripNothing(s) == s

\* title_element.text.strip()
Strip(s) == RStrip(LStrip(s))

VARIABLES
  \* the page (environment)
  page,            \* layout of the page
  catalog,         \* catalog[k]: the items of batch k
  loaded,          \* number of batches realized in the DOM
  pending,         \* a batch request is in flight
  rerenders,       \* re-renders of the grid so far
  offset,          \* window.pageYOffset
  \* find_product_by_name (last_height is written and never read by the
  \* function, lines 130 and 199-200: it is left out)
  pc,              \* position in the function
  product_name,    \* the argument
  scroll_position, \* requested scroll offset
  scroll_count,    \* loop variable of the scan loop
  products,        \* nodes of the current query
  idx,             \* position in products
  result,          \* "none" | "found" | "not_found" | "timeout" | "stale"
  returned,        \* index in products of the node returned, 0 if none
  \* history
  fwdScrolls,      \* forward scrolls issued (window.scrollTo by the increment)
  topScrolls,      \* scrolls to the top issued
  viewScrolls,     \* successful scrollIntoView calls
  finalPasses,     \* final recheck passes started
  iterations,      \* scan iterations started
  lastWait,        \* outcome of the count wait of this iteration
  passedOver,      \* this pass read a title equal to the target and went on
  staleSet         \* nodes of this pass found stale (at lookup or at scroll)

vars == <<page, catalog, loaded, pending, rerenders, offset, pc, product_name,
          scroll_position, scroll_count, products, idx, result, returned,
          fwdScrolls, topScrolls, viewScrolls, finalPasses, iterations,
          lastWait, passedOver, staleSet>>

envVars  == <<page, catalog, loaded, pending, rerenders, offset>>
argVars  == <<product_name>>
histVars == <<fwdScrolls, topScrolls, viewScrolls, finalPasses, iterations,
              lastWait, passedOver, staleSet>>

VARIABLES
  \* a WaitUtils instance and the wait it is running (utils/waits.py)
  self_timeout,    \* self.timeout of the instance
  calls,           \* waits called on the instance so far
  caller,          \* "wait" | "is_element_visible" | "is_element_present"
  kind,            \* the predicate class of the wait
  timeout,         \* the timeout argument: <<>> for None, <<t>> for t
  w_min_count,     \* the min_count argument of the count wait
  early,           \* matching elements before the page changes
  late,            \* matching elements once the page has changed
  arrival,         \* time after the call at which the page changes
  wpc,             \* "idle" | "poll" | "sleep" | "return" | "done"
  elapsed,         \* time since the call, in clock ticks
  wtimeout,        \* the timeout of the WebDriverWait of the call
  polls,           \* polls made by the call
  wresult,         \* outcome of the wait: "none" | "ok" | "TimeoutException"
  found,           \* number of elements the wait returns
  wreturn,         \* what the caller receives
  prevTimeout      \* the timeout argument of the previous call

waitVars == <<self_timeout, calls, caller, kind, timeout, w_min_count, early,
              late, arrival, wpc, elapsed, wtimeout, polls, wresult, found,
              wreturn, prevTimeout>>

VARIABLES
  \* a page-object action called by the test flow
  op,              \* the action
  actions,         \* actions called so far
  apc,             \* position in the action: the next driver call, 0 at rest
  attempts,        \* find-then-click attempts started by the action
  failure,         \* the first exception raised inside the action
  firstExc,        \* the exception that ended the first attempt
  aexc,            \* the exception that leaves the action
  aret,            \* the value the action returns
  checkbox,        \* marketing checkbox: "absent" | "unselected" | "selected"
  cbClicks,        \* clicks of the action on the marketing checkbox
  probed,          \* what is_element_visible told the action, "none" before
  steps            \* the steps fill_checkout_form has run, in order

actVars == <<op, actions, apc, attempts, failure, firstExc, aexc, aret,
             checkbox, cbClicks, probed, steps>>

VARIABLES
  \* the test runner over the parametrized records (conftest.py,
  \* test_bluebella.py)
  recValid,        \* recValid[i]: record i holds every required key
  browser_name,    \* --browser_name
  headless,        \* --headless
  rec,             \* the record whose run is under way
  rpc,             \* position of the runner in the run
  driver,          \* the local "driver" of browser_instance: "None" | "set"
  proc,            \* browser process of the run: "none" | "running" | "quit"
  quits,           \* driver.quit() calls of the run
  body,            \* next step of the test body
  trail,           \* steps of the body run so far, in order
  outcome,         \* of the body: "none" | "passed" | "assert" | "exception"
  upsell,          \* how click_last_complete_the_look_item ended
  shot,            \* screenshot of the run: "none" | "saved" | "failed"
  shotProc,        \* state of the browser process when the screenshot was asked
  verdicts,        \* verdicts[i]: "passed" | "failed" | "error" of record i
  leaks            \* browser processes of earlier runs never quit

runVars == <<recValid, browser_name, headless, rec, rpc, driver, proc, quits,
             body, trail, outcome, upsell, shot, shotProc, verdicts, leaks>>

VARIABLES
  \* one call of validate_test_data (utils/helpers.py)
  test_data,       \* the record
  required_keys,   \* the list of required keys
  given_data,      \* the record as it was passed
  vpc,             \* "idle" | "call" | "done"
  vresult          \* what the call returned

valVars == <<test_data, required_keys, given_data, vpc, vresult>>

VARIABLES
  \* ConfigManager (config/config_manager.py)
  config_file,     \* <<>> when missing, or <<settings the file holds>>
  instance,        \* ConfigManager._instance: "None" | "object"
  loaded_config,   \* _config of the instance: <<>> for None, or <<settings>>
  cfgCalls,        \* ConfigManager() calls so far
  cfgGot,          \* the last call: "none" | "FileNotFoundError" | "returned"
  cfgReads,        \* successful reads of the file
  cfgValue         \* the last getint: what it raised and what it returned

cfgVars ==
  <<config_file, instance, loaded_config, cfgCalls, cfgGot, cfgReads, cfgValue>>

restVars == <<runVars, valVars, cfgVars>>

\* Everything outside find_product_by_name and its page.
otherVars == <<waitVars, actVars, restVars>>

allVars == <<vars, waitVars, actVars, restVars>>

\* No wait has been called on the instance.
WaitIdle ==
  /\ calls = 0
  /\ caller = "wait"
  /\ kind = "present"
  /\ timeout = <<>>
  /\ w_min_count = 1
  /\ early = 0
  /\ late = 0
  /\ arrival = 0
  /\ wpc = "idle"
  /\ elapsed = 0
  /\ wtimeout = 0
  /\ polls = 0
  /\ wresult = "none"
  /\ found = 0
  /\ wreturn = "none"
  /\ prevTimeout = <<>>

\* No WaitUtils instance takes part: one with a timeout of 2 s lies unused.
WaitUnused ==
  /\ self_timeout = 2
  /\ WaitIdle

\* No action has been called, whatever the checkout page shows.
ActStart ==
  /\ op = "none"
  /\ actions = 0
  /\ apc = 0
  /\ attempts = 0
  /\ failure = "none"
  /\ firstExc = "none"
  /\ aexc = "none"
  /\ aret = "none"
  /\ cbClicks = 0
  /\ probed = "none"
  /\ steps = <<>>

\* No action is called.
ActIdle ==
  /\ ActStart
  /\ checkbox = "absent"

\* The test runner has nothing to run.
RunIdle ==
  /\ recValid = <<>>
  /\ browser_name = "chrome"
  /\ headless = FALSE
  /\ rec = 0
  /\ rpc = "finished"
  /\ driver = "None"
  /\ proc = "none"
  /\ quits = 0
  /\ body = 0
  /\ trail = <<>>
  /\ outcome = "none"
  /\ upsell = "none"
  /\ shot = "none"
  /\ shotProc = "none"
  /\ verdicts = <<>>
  /\ leaks = 0

\* validate_test_data is not called.
ValIdle ==
  /\ test_data = <<>>
  /\ required_keys = <<>>
  /\ given_data = <<>>
  /\ vpc = "idle"
  /\ vresult = "none"

\* ConfigManager is not used.
CfgIdle ==
  /\ config_file = <<>>
  /\ instance = "None"
  /\ loaded_config = <<>>
  /\ cfgCalls = 0
  /\ cfgGot = "none"
  /\ cfgReads = 0
  /\ cfgValue = [exc |-> "none", value |-> 0]

RestIdle == RunIdle /\ ValIdle /\ CfgIdle

\* ---------------------------------------------------------------- the page

RECURSIVE Concat(_, _)
Concat(cat, n) == IF n = 0 THEN <<>> ELSE Concat(cat, n - 1) \o cat[n]

\* driver.find_elements(*self.product_grid_items) on a page with n batches
NodesOf(n) == Concat(catalog, n)
Realized == NodesOf(loaded)

\* document.body.scrollHeight with n batches loaded
HeightOf(n) == page.base + n * page.batch
Height == HeightOf(loaded)

\* largest offset the browser accepts with n batches loaded
MaxOffsetOf(n) == Max(0, HeightOf(n) - page.viewport)

\* window.scrollTo(0, p): the browser clamps the offset
Clamp(p) == Min(Max(p, 0), MaxOffsetOf(loaded))

\* The viewport shows the bottom of the page while more batches exist: the
\* page requests the next batch.
Triggers(o, n) == n < NumBatches /\ o + page.viewport >= HeightOf(n)

\* Batch of the node at position i of a query.
RECURSIVE BatchOf(_, _)
BatchOf(i, k) ==
  IF k >= NumBatches \/ i <= Len(catalog[k]) THEN k
  ELSE BatchOf(i - Len(catalog[k]), k + 1)

\* Offset at which node i is shown (scrollIntoView).
NodeOffset(i) == Clamp(page.base + (BatchOf(i, 1) - 1) * page.batch)

\* ----------------------------------------------------------------- waits

\* WaitUtils.wait_for_element_present, for a locator matching n elements
\* until the timeout: until() returns the element once one is present and
\* raises TimeoutException otherwise.
wait_for_element_present(n) == IF n > 0 THEN "ok" ELSE "timeout"

\* WaitUtils.wait_for_elements_present: until() returns the first non-empty
\* list; a list shorter than min_count raises TimeoutException at once.
wait_for_elements_present(n, min_count) ==
  IF n = 0 THEN "timeout"
  ELSE IF n >= min_count THEN "ok" ELSE "timeout"

\* Number of title elements in the document.
TitleCount(nodes) == Cardinality({i \in 1..Len(nodes) : nodes[i].has})

\* ------------------------------------------------- find_product_by_name

\* Mutant: the loop runs one iteration too many.
LoopContinuesOffByOne(c) == c <= max_scrolls

\* for scroll_count in range(max_scrolls)
LoopContinues(c) == c < max_scrolls

\* Mutant: only a missing title is skipped, a stale node is fatal.
SkipsOnlyMissing(exc) == exc = "NoSuchElementException"

\* except (NoSuchElementException, StaleElementReferenceException): continue
SkipsNode(exc) ==
  exc \in {"NoSuchElementException", "StaleElementReferenceException"}

\* Mutant: the timeout of the count wait is not caught.
ScanCatchesNothing(exc) == FALSE

\* except TimeoutException around the count wait of the scan loop
ScanCatches(exc) == exc = "TimeoutException"

\* title_text == product_name
Matches(text, name) == text = name

\* if current_scroll + 500 >= new_height: break
BottomReached(current_scroll, new_height) ==
  current_scroll + bottom_proximity >= new_height

\* Mutant: the matched node is not returned, the pass goes on.
NeverReturnsOnMatch == FALSE

\* "return product" after the matched node was brought into view
ReturnsOnMatch == TRUE

IsStale(exc) == exc = "StaleElementReferenceException"

\* Exception raised by product.find_element(...).text on a node.
ReadError(node, stale) ==
  IF stale THEN "StaleElementReferenceException"
  ELSE IF ~node.has THEN "NoSuchElementException"
  ELSE "none"

\* The title was read and equals the name searched for.
ReadsMatch(node, stale) ==
  ReadError(node, stale) = "none" /\ Matches(Strip(node.title), product_name)

\* One node of a pass.  stale: the handle is stale when the title is looked
\* up; staleAtScroll: it has gone stale when it is scrolled into view.
\* The exception, if any, raised inside the try block of the node.
TryError(node, stale, staleAtScroll) ==
  IF ReadsMatch(node, stale) /\ staleAtScroll
    THEN "StaleElementReferenceException"
    ELSE ReadError(node, stale)

\* The result with which an exception leaves the function.
Raised(exc) ==
  CASE exc = "TimeoutException" -> "timeout"
    [] exc = "NoSuchElementException" -> "not_found"
    [] OTHER -> "stale"

Init ==
  /\ page \in Pages
  /\ catalog \in [1..NumBatches -> BatchKinds]
  /\ loaded = 0
  /\ pending = TRUE
  /\ rerenders = 0
  /\ offset = 0
  /\ pc = "query"
  /\ product_name \in ProductNames
  /\ scroll_position = 0
  /\ scroll_count = 0
  /\ products = <<>>
  /\ idx = 0
  /\ result = "none"
  /\ returned = 0
  /\ fwdScrolls = 0
  /\ topScrolls = 0
  /\ viewScrolls = 0
  /\ finalPasses = 0
  /\ iterations = 0
  /\ lastWait = "none"
  /\ passedOver = FALSE
  /\ staleSet = {}
  /\ WaitUnused
  /\ ActIdle
  /\ RestIdle

\* --- the environment

\* The page changes between two driver calls of the function.  While the
\* function walks the nodes of a query it sees the page only through the
\* staleness of its handles.
EnvMayAct == pc \notin {"inspect", "final_inspect", "done"}

\* The batch requested arrives and is added to the grid.
LoadBatch ==
  /\ EnvMayAct
  /\ pending
  /\ loaded < NumBatches
  /\ loaded' = loaded + 1
  /\ pending' = Triggers(offset, loaded + 1)
  /\ UNCHANGED <<page, catalog, rerenders, offset>>
  /\ UNCHANGED <<pc, argVars, otherVars, scroll_position, scroll_count, products, idx,
                 result, returned>>
  /\ UNCHANGED histVars

\* The grid is re-rendered: its nodes are removed and the first batch is
\* requested again.
Rerender ==
  /\ EnvMayAct
  /\ rerenders < MaxRerenders
  /\ loaded > 0
  /\ rerenders' = rerenders + 1
  /\ loaded' = 0
  /\ pending' = TRUE
  /\ offset' = Min(offset, MaxOffsetOf(0))
  /\ UNCHANGED <<page, catalog>>
  /\ UNCHANGED <<pc, argVars, otherVars, scroll_position, scroll_count, products, idx,
                 result, returned>>
  /\ UNCHANGED histVars

\* --- the function

\* Mutant: the scroll goes on from the offset the browser reports.
ScrollFromReported ==
  /\ scroll_position' = offset + scroll_amount
  /\ offset' = Clamp(scroll_position')
  /\ pending' = (pending \/ Triggers(offset', loaded))
  /\ fwdScrolls' = fwdScrolls + 1
  /\ UNCHANGED <<page, catalog, loaded, rerenders>>

\* self.driver.execute_script(f"window.scrollTo(0, {scroll_position});")
\* after scroll_position += scroll_amount
ForwardScroll ==
  /\ scroll_position' = scroll_position + scroll_amount
  /\ offset' = Clamp(scroll_position')
  /\ pending' = (pending \/ Triggers(offset', loaded))
  /\ fwdScrolls' = fwdScrolls + 1
  /\ UNCHANGED <<page, catalog, loaded, rerenders>>

\* scroll_to_element(self.driver, product) on node i
ScrollIntoView(i) ==
  /\ offset' = NodeOffset(i)
  /\ pending' = (pending \/ Triggers(offset', loaded))
  /\ viewScrolls' = viewScrolls + 1
  /\ UNCHANGED <<page, catalog, loaded, rerenders>>

\* raise exc out of the function
Raise(exc) ==
  /\ pc' = "done"
  /\ result' = Raised(exc)

\* Head of a scan iteration: query the item nodes; without nodes, scroll on.
Query ==
  /\ pc = "query"
  /\ LoopContinues(scroll_count)
  /\ products' = Realized
  /\ iterations' = iterations + 1
  /\ lastWait' = "none"
  /\ passedOver' = FALSE
  /\ staleSet' = {}
  /\ IF Realized = <<>>
       THEN /\ ForwardScroll
            /\ pc' = "noprod_wait"
            /\ idx' = 0
       ELSE /\ pc' = "inspect"
            /\ idx' = 1
            /\ UNCHANGED <<envVars, scroll_position, fwdScrolls>>
  /\ UNCHANGED <<argVars, otherVars, scroll_count, result, returned>>
  /\ UNCHANGED <<topScrolls, viewScrolls, finalPasses>>

\* The range of the scan loop is used up.
ExitLoop ==
  /\ pc = "query"
  /\ ~LoopContinues(scroll_count)
  /\ pc' = "final_top"
  /\ UNCHANGED envVars
  /\ UNCHANGED <<argVars, otherVars, scroll_position, scroll_count, products, idx,
                 result, returned>>
  /\ UNCHANGED histVars

\* wait_for_element_present after the scroll of an iteration without nodes,
\* then continue.
NoProductsWait ==
  /\ pc = "noprod_wait"
  /\ IF wait_for_element_present(Len(Realized)) = "ok"
       THEN /\ scroll_count' = scroll_count + 1
            /\ pc' = "query"
            /\ UNCHANGED result
       ELSE /\ Raise("TimeoutException")
            /\ UNCHANGED scroll_count
  /\ UNCHANGED envVars
  /\ UNCHANGED <<argVars, otherVars, scroll_position, products, idx, returned>>
  /\ UNCHANGED histVars

\* Body of "for idx, product in enumerate(products)" in the scan loop.
ScanInspect ==
  /\ pc = "inspect"
  /\ idx <= Len(products)
  /\ \E stale \in BOOLEAN, staleAtScroll \in BOOLEAN :
       LET node == products[idx]
           exc  == TryError(node, stale, staleAtScroll)
           hit  == ReadsMatch(node, stale)
       IN  /\ staleSet' = IF IsStale(exc) THEN staleSet \cup {idx} ELSE staleSet
           /\ IF hit /\ exc = "none"
                THEN /\ ScrollIntoView(idx)
                     /\ pc' = "match_wait"
                     /\ UNCHANGED <<idx, result, passedOver>>
                ELSE /\ UNCHANGED <<envVars, viewScrolls>>
                     /\ IF exc # "none" /\ ~SkipsNode(exc)
                          THEN /\ Raise(exc)
                               /\ UNCHANGED <<idx, passedOver>>
                          ELSE /\ idx' = idx + 1
                               /\ passedOver' = (passedOver \/ hit)
                               /\ UNCHANGED <<pc, result>>
  /\ UNCHANGED <<argVars, otherVars, scroll_position, scroll_count, products, returned>>
  /\ UNCHANGED <<fwdScrolls, topScrolls, finalPasses, iterations, lastWait>>

\* wait_for_element_present for a title element after the match, then
\* return product.
MatchWait ==
  /\ pc = "match_wait"
  /\ IF wait_for_element_present(TitleCount(Realized)) = "ok"
       THEN IF ReturnsOnMatch
              THEN /\ pc' = "done"
                   /\ result' = "found"
                   /\ returned' = idx
                   /\ UNCHANGED idx
              ELSE /\ pc' = "inspect"
                   /\ idx' = idx + 1
                   /\ UNCHANGED <<result, returned>>
       ELSE /\ Raise("TimeoutException")
            /\ UNCHANGED <<returned, idx>>
  /\ UNCHANGED envVars
  /\ UNCHANGED <<argVars, otherVars, scroll_position, scroll_count, products>>
  /\ UNCHANGED histVars

\* No node of the pass matched: scroll on by the increment.
ScanScroll ==
  /\ pc = "inspect"
  /\ idx > Len(products)
  /\ ForwardScroll
  /\ pc' = "count_wait"
  /\ UNCHANGED <<argVars, otherVars, scroll_count, products, idx, result, returned>>
  /\ UNCHANGED <<topScrolls, viewScrolls, finalPasses, iterations, lastWait,
                 passedOver, staleSet>>

\* The count wait after the scroll, the bottom test and the end of the
\* iteration.
CountWait ==
  /\ pc = "count_wait"
  /\ LET w == wait_for_elements_present(Len(Realized), Len(products))
         new_height == Height
         current_scroll == offset
     IN  /\ lastWait' = w
         /\ IF w = "timeout" /\ ~ScanCatches("TimeoutException")
              THEN /\ Raise("TimeoutException")
                   /\ UNCHANGED scroll_count
              ELSE IF BottomReached(current_scroll, new_height)
                THEN /\ pc' = "final_top"
                     /\ UNCHANGED <<scroll_count, result>>
                ELSE /\ scroll_count' = scroll_count + 1
                     /\ pc' = "query"
                     /\ UNCHANGED result
  /\ UNCHANGED envVars
  /\ UNCHANGED <<argVars, otherVars, scroll_position, products, idx, returned>>
  /\ UNCHANGED <<fwdScrolls, topScrolls, viewScrolls, finalPasses, iterations,
                 passedOver, staleSet>>

\* self.driver.execute_script("window.scrollTo(0, 0);")
FinalTop ==
  /\ pc = "final_top"
  /\ offset' = Clamp(0)
  /\ pending' = (pending \/ Triggers(offset', loaded))
  /\ topScrolls' = topScrolls + 1
  /\ pc' = "final_wait"
  /\ UNCHANGED <<page, catalog, loaded, rerenders>>
  /\ UNCHANGED <<argVars, otherVars, scroll_position, scroll_count, products, idx,
                 result, returned>>
  /\ UNCHANGED <<fwdScrolls, viewScrolls, finalPasses, iterations, lastWait,
                 passedOver, staleSet>>

\* wait_for_elements_present(min_count=1) of the final check
FinalWait ==
  /\ pc = "final_wait"
  /\ IF wait_for_elements_present(Len(Realized), 1) = "ok"
       THEN /\ pc' = "final_query"
            /\ UNCHANGED result
       ELSE Raise("TimeoutException")
  /\ UNCHANGED envVars
  /\ UNCHANGED <<argVars, otherVars, scroll_position, scroll_count, products, idx,
                 returned>>
  /\ UNCHANGED histVars

\* products = self.driver.find_elements(...) of the final check
FinalQuery ==
  /\ pc = "final_query"
  /\ products' = Realized
  /\ idx' = 1
  /\ finalPasses' = finalPasses + 1
  /\ passedOver' = FALSE
  /\ staleSet' = {}
  /\ pc' = "final_inspect"
  /\ UNCHANGED envVars
  /\ UNCHANGED <<argVars, otherVars, scroll_position, scroll_count, result, returned>>
  /\ UNCHANGED <<fwdScrolls, topScrolls, viewScrolls, iterations, lastWait>>

\* Body of "for product in products" in the final check.
FinalInspect ==
  /\ pc = "final_inspect"
  /\ idx <= Len(products)
  /\ \E stale \in BOOLEAN, staleAtScroll \in BOOLEAN :
       LET node == products[idx]
           exc  == TryError(node, stale, staleAtScroll)
           hit  == ReadsMatch(node, stale)
       IN  /\ staleSet' = IF IsStale(exc) THEN staleSet \cup {idx} ELSE staleSet
           /\ IF hit /\ exc = "none"
                THEN /\ ScrollIntoView(idx)
                     /\ pc' = "done"
                     /\ result' = "found"
                     /\ returned' = idx
                     /\ UNCHANGED <<idx, passedOver>>
                ELSE /\ UNCHANGED <<envVars, viewScrolls, returned>>
                     /\ IF exc # "none" /\ ~SkipsNode(exc)
                          THEN /\ Raise(exc)
                               /\ UNCHANGED <<idx, passedOver>>
                          ELSE /\ idx' = idx + 1
                               /\ passedOver' = (passedOver \/ hit)
                               /\ UNCHANGED <<pc, result>>
  /\ UNCHANGED <<argVars, otherVars, scroll_position, scroll_count, products>>
  /\ UNCHANGED <<fwdScrolls, topScrolls, finalPasses, iterations, lastWait>>

\* raise NoSuchElementException(f"Product '{product_name}' not found ...")
FinalNotFound ==
  /\ pc = "final_inspect"
  /\ idx > Len(products)
  /\ Raise("NoSuchElementException")
  /\ UNCHANGED envVars
  /\ UNCHANGED <<argVars, otherVars, scroll_position, scroll_count, products, idx,
                 returned>>
  /\ UNCHANGED histVars

\* A step of find_product_by_name.
Step ==
  \/ Query
  \/ ExitLoop
  \/ NoProductsWait
  \/ ScanInspect
  \/ MatchWait
  \/ ScanScroll
  \/ CountWait
  \/ FinalTop
  \/ FinalWait
  \/ FinalQuery
  \/ FinalInspect
  \/ FinalNotFound

Next ==
  \/ Step
  \/ LoadBatch
  \/ Rerender

Spec == Init /\ [][Next]_vars

TypeOK ==
  /\ pc \in {"query", "noprod_wait", "inspect", "match_wait", "count_wait",
             "final_top", "final_wait", "final_query", "final_inspect",
             "done"}
  /\ result \in {"none", "found", "not_found", "timeout", "stale"}
  /\ loaded \in 0..NumBatches
  /\ scroll_count \in 0..max_scrolls
  /\ idx \in 0..(Len(products) + 1)


\* ===================================================================
\* Properties of find_product_by_name
\* ===================================================================

\* A title without its surrounding blanks, stated without Strip.
Trimmed(s) ==
  LET ink == {i \in 1..Len(s) : s[i] # " "}
  IN  IF ink = {} THEN <<>>
      ELSE SubSeq(s, CHOOSE i \in ink : \A j \in ink : i <= j,
                     CHOOSE i \in ink : \A j \in ink : i >= j)

\* The node shows the title searched for.
TitleIs(node, name) == node.has /\ Trimmed(node.title) = name

\* Some batch of the page holds an item with the title searched for.
TargetInCatalog ==
  \E k \in 1..NumBatches : \E i \in 1..Len(catalog[k]) :
    TitleIs(catalog[k][i], product_name)

\* The page served every batch it was asked for, never re-rendered its grid,
\* and no node of the last pass was stale.
PageWellBehaved ==
  loaded >= 1 /\ ~pending /\ rerenders = 0 /\ staleSet = {}

\* C1: on a page that loads its items in batches as it is scrolled and holds
\* the target in some batch, the call returns the item with that title within
\* 100 scan iterations and ends in no error.
C1_FindsTargetOfSomeBatch ==
  (pc = "done" /\ TargetInCatalog /\ PageWellBehaved)
    => /\ result = "found"
       /\ iterations <= max_scrolls
       /\ returned \in 1..Len(products)
       /\ TitleIs(products[returned], product_name)


\* C2: with the target in no batch of the page, the call ends in the
\* not-found error, after the scroll to the top and the final pass, and in no
\* other error.
C2_AbsentTargetEndsNotFound ==
  (pc = "done" /\ ~TargetInCatalog)
    => (result = "not_found" /\ topScrolls = 1 /\ finalPasses = 1)

\* Largest number of nodes a query of this page returns.
MaxNodes == Len(NodesOf(NumBatches))

\* Steps a scan iteration takes at most, and steps the final check takes at
\* most.
IterationSteps == MaxNodes + 4
FinalSteps == MaxNodes + 5

\* Steps left when the iteration after iteration c starts.
StepsFromNext(c) == (max_scrolls - c - 1) * IterationSteps + FinalSteps + 1

\* An upper bound of the steps the call still takes.
Variant ==
  CASE pc = "query" ->
         (max_scrolls - scroll_count) * IterationSteps + FinalSteps + 1
    [] pc = "noprod_wait" -> StepsFromNext(scroll_count) + 1
    [] pc = "inspect" ->
         StepsFromNext(scroll_count) + 2 + (Len(products) + 1 - idx)
    [] pc = "count_wait" -> StepsFromNext(scroll_count) + 1
    [] pc = "match_wait" -> 1
    [] pc = "final_top" -> FinalSteps
    [] pc = "final_wait" -> FinalSteps - 1
    [] pc = "final_query" -> FinalSteps - 2
    [] pc = "final_inspect" -> 1 + (Len(products) + 1 - idx)
    [] OTHER -> 0

\* C3: every call terminates: at most 100 scan iterations, at most 100
\* forward scrolls, at most one final pass; until the call has ended a step
\* is possible, and every step lowers a bound of the steps left.
C3_BoundedSearch ==
  /\ [](/\ iterations <= max_scrolls
        /\ fwdScrolls <= max_scrolls
        /\ fwdScrolls <= iterations
        /\ finalPasses <= 1
        /\ topScrolls <= 1
        /\ Variant >= 0
        /\ (pc # "done" => ENABLED Step))
  /\ [][Step => Variant' < Variant]_vars

\* C3 witness: the cap was used up and the final pass was made.
C3_Witness ==
  pc = "done" /\ iterations = max_scrolls /\ fwdScrolls = max_scrolls
    /\ finalPasses = 1

\* The states of the locator, read off the position in the function.
Phase ==
  CASE pc \in {"query", "noprod_wait", "inspect", "count_wait",
               "match_wait"} -> "SCANNING"
    [] pc = "final_top" -> "EXHAUSTED"
    [] pc \in {"final_wait", "final_query", "final_inspect"} ->
         "FINAL_RECHECK"
    [] pc = "done" /\ result = "found" -> "FOUND"
    [] pc = "done" /\ result = "not_found" -> "NOT_FOUND"
    [] OTHER -> "ERROR"

PhaseMoves ==
  { <<"SCANNING", "FOUND">>, <<"SCANNING", "EXHAUSTED">>,
    <<"EXHAUSTED", "FINAL_RECHECK">>, <<"FINAL_RECHECK", "FOUND">>,
    <<"FINAL_RECHECK", "NOT_FOUND">> }

\* C4: a call moves SCANNING -> FOUND or SCANNING -> EXHAUSTED ->
\* FINAL_RECHECK -> FOUND | NOT_FOUND, and ends in no other state.
C4_StateMachine ==
  [][Phase' = Phase \/ <<Phase, Phase'>> \in PhaseMoves]_vars

\* C5 as stated: once a title equal to the target was read while scanning
\* there is no forward scroll, no scroll to the top and no final pass, and
\* the call returns.
C5_NoScrollAfterMatchRead ==
  [][((passedOver \/ pc = "match_wait") /\ finalPasses = 0)
       => /\ fwdScrolls' = fwdScrolls
          /\ topScrolls' = topScrolls
          /\ finalPasses' = finalPasses
          /\ (pc' = "done" => result' = "found")]_vars

\* C5 amended: the wait after a match is entered only with the matching
\* node brought into view; from then on there is no forward scroll, no scroll
\* to the top and no final pass, and the call ends by returning that node or
\* by the timeout of the wait.  A matching node that is stale when it is
\* scrolled into view is skipped.
C5_NoScrollAfterMatchInView ==
  [][/\ (pc # "match_wait" /\ pc' = "match_wait")
          => /\ idx' = idx
             /\ TitleIs(products[idx], product_name)
             /\ idx \notin staleSet'
             /\ viewScrolls' = viewScrolls + 1
     /\ pc = "match_wait"
          => /\ fwdScrolls' = fwdScrolls
             /\ topScrolls' = topScrolls
             /\ finalPasses' = finalPasses
             /\ viewScrolls' = viewScrolls
             /\ pc' \in {"match_wait", "done"}
             /\ pc' = "done"
                  => \/ result' = "found" /\ returned' = idx
                     \/ result' = "timeout" /\ returned' = 0
     /\ (pc = "inspect" /\ passedOver' /\ ~passedOver)
          => /\ pc' = "inspect"
             /\ idx' = idx + 1
             /\ idx \in staleSet'
             /\ viewScrolls' = viewScrolls]_vars

\* C5 witness: the scan returned a node after it had skipped a matching node
\* that was stale at the scroll.
C5_Witness ==
  pc = "done" /\ result = "found" /\ finalPasses = 0 /\ passedOver
    /\ viewScrolls = 1

\* C6 as stated: the node returned is the first node of its pass whose
\* title equals the target: no node before it whose title was read and
\* equals the target is passed over (a node whose title lookup failed
\* shows no title).
C6_ReturnsFirstEqualTitle ==
  result = "found"
    => /\ returned \in 1..Len(products)
       /\ TitleIs(products[returned], product_name)
       /\ ~passedOver
       /\ \A j \in 1..(returned - 1) :
            TitleIs(products[j], product_name) => j \in staleSet

\* C6 amended: the node returned is the first node of its pass whose title
\* equals the target (blanks around it aside) and which was not stale when
\* its title was looked up or when it was scrolled into view; the nodes
\* after it are not examined.
C6_ReturnsFirstLiveEqualTitle ==
  result = "found"
    => /\ returned \in 1..Len(products)
       /\ TitleIs(products[returned], product_name)
       /\ \A j \in 1..(returned - 1) :
            TitleIs(products[j], product_name) => j \in staleSet
       /\ idx = returned
       /\ staleSet \subseteq 1..(returned - 1)

\* C6 witness: a node was returned after a node with an equal title was read
\* and found stale at the scroll, with an equal title after it.
C6_Witness ==
  /\ result = "found"
  /\ passedOver
  /\ \E j \in 1..(returned - 1) : TitleIs(products[j], product_name)
  /\ \E j \in (returned + 1)..Len(products) :
       TitleIs(products[j], product_name)

\* C7: a node whose title lookup fails (stale, or no title element) is
\* skipped and the next node of the same pass is inspected; a pass is left
\* only after its last node or on a match; in the scan loop and in the final
\* check alike.
C7_FailedLookupIsSkipped ==
  [][/\ (/\ pc \in {"inspect", "final_inspect"}
         /\ idx <= Len(products)
         /\ (~products[idx].has \/ idx \in staleSet'))
          => /\ pc' = pc
             /\ idx' = idx + 1
             /\ result' = "none"
             /\ products' = products
     /\ (pc \in {"inspect", "final_inspect"} /\ pc' # pc)
          => \/ idx > Len(products)
             \/ /\ TitleIs(products[idx], product_name)
                /\ idx \notin staleSet']_vars

\* C7 witness: the final check returned a node after it had skipped a stale
\* node and a node without a title.
C7_Witness ==
  /\ pc = "done" /\ result = "found" /\ finalPasses = 1
  /\ staleSet # {}
  /\ \E k \in 1..(returned - 1) : ~products[k].has /\ k \notin staleSet

\* C8: an iteration that finds no item nodes scrolls on by the increment and
\* retries the query; it never ends the search with an error.
C8_NoNodesScrollsAndRetries ==
  [][/\ (pc = "query" /\ pc' = "noprod_wait")
          => scroll_position' = scroll_position + scroll_amount
     /\ (pc = "noprod_wait" /\ pc' # pc)
          => (pc' = "query" /\ result' = "none")]_vars

\* The page is scrolled to its end and has nothing more to load.
FullyScrolled ==
  offset >= MaxOffsetOf(loaded) /\ loaded = NumBatches /\ ~pending

\* C9: scanning stops at 100 scroll attempts or as soon as the offset is
\* within 500px of the page bottom: an iteration goes on to the next one only
\* if the proximity test fails, and once the page is fully scrolled with
\* nothing more to load the scan stops in that iteration.
C9_StopsAtBottomOrCap ==
  [][/\ iterations' <= max_scrolls
     /\ (pc \in {"count_wait", "noprod_wait"} /\ pc' = "query")
          => ~(offset + bottom_proximity >= Height)
     /\ (pc = "count_wait" /\ pc' # pc /\ FullyScrolled)
          => pc' = "final_top"]_vars

\* C10: a timeout of the count wait does not end the call: the bottom test
\* is made on the height read after it and the search goes on to the next
\* iteration or to the final check.
C10_CountWaitTimeoutTolerated ==
  [][(pc = "count_wait" /\ pc' # pc /\ lastWait' = "timeout")
       => /\ result' = "none"
          /\ pc' \in {"query", "final_top"}
          /\ (pc' = "final_top") = (offset + bottom_proximity >= Height)
          /\ (pc' = "query") => (scroll_count' = scroll_count + 1)]_vars

\* C10 witness: the count wait timed out and the next iteration is about to
\* start.
C10_Witness ==
  pc = "query" /\ lastWait = "timeout" /\ result = "none"
    /\ scroll_count > 0


\* ===================================================================
\* WaitUtils (utils/waits.py)
\* ===================================================================

\* Time is counted in polls of WebDriverWait: a timeout of t seconds spans
\* PollsPerSecond * t poll intervals.
PollsPerSecond == 2

MaxCount == 2
MaxCalls == 2

\* Timeouts, in seconds, with which the instance is built.
InstanceTimeouts == {2, 3}

\* Values of the timeout argument.
TimeoutArgs == {<<>>, <<0>>, <<1>>}

WaitKinds == {"present", "visible", "clickable", "text", "count", "url"}

Callers == {"wait", "is_element_visible", "is_element_present"}

\* The wait a caller runs.
KindsOf(c) ==
  CASE c = "is_element_visible" -> {"visible"}
    [] c = "is_element_present" -> {"present"}
    [] OTHER -> WaitKinds

\* The timeout arguments a caller can pass: the checks is_element_* always
\* pass theirs on.
TimeoutArgsOf(c) == IF c = "wait" THEN TimeoutArgs ELSE TimeoutArgs \ {<<>>}

\* timeout or self.timeout
TimeoutOr(t, default) == IF t = <<>> \/ t[1] = 0 THEN default ELSE t[1]

\* Mutant: the override of a call stays with the instance.
OverrideSticks(default, used) == used

\* self.timeout after a call: no wait assigns it.
TimeoutAfterCall(default, used) == default

\* The elements that match the locator and satisfy the predicate of the wait
\* at time t after the call.
CountAt(t) == IF t < arrival THEN early ELSE late

\* What until() makes of the value its method returns: a non-empty list, an
\* element or True ends the polling.
Truthy(n) == n > 0

\* if len(elements) >= min_count ... else raise TimeoutException
EnoughElements(k, n, m) == k # "count" \/ n >= m

\* Mutant: the checks catch nothing.
CheckCatchesNothing(exc) == FALSE

\* except TimeoutException: return False
CheckCatches(exc) == exc = "TimeoutException"

\* The result of the call for its caller.
ReturnOf(c, res) ==
  IF c = "wait"
    THEN IF res = "ok" THEN "value" ELSE res
    ELSE IF res = "ok" THEN "True"
         ELSE IF CheckCatches(res) THEN "False" ELSE res

\* find_product_by_name is not running and its page is at rest.
SearchIdle ==
  /\ page = [viewport |-> 400, base |-> 200, batch |-> 600]
  /\ catalog = [k \in 1..NumBatches |-> <<ItemB>>]
  /\ loaded = 0
  /\ pending = FALSE
  /\ rerenders = 0
  /\ offset = 0
  /\ pc = "done"
  /\ product_name = <<"a">>
  /\ scroll_position = 0
  /\ scroll_count = 0
  /\ products = <<>>
  /\ idx = 0
  /\ result = "none"
  /\ returned = 0
  /\ fwdScrolls = 0
  /\ topScrolls = 0
  /\ viewScrolls = 0
  /\ finalPasses = 0
  /\ iterations = 0
  /\ lastWait = "none"
  /\ passedOver = FALSE
  /\ staleSet = {}

\* WaitUtils(driver, timeout), no wait called yet.
InitWait ==
  /\ self_timeout \in InstanceTimeouts
  /\ WaitIdle
  /\ ActIdle
  /\ SearchIdle
  /\ RestIdle

\* A wait, or a check is_element_*, is called on the instance:
\* wait = WebDriverWait(self.driver, timeout or self.timeout)
WaitCall ==
  /\ wpc \in {"idle", "done"}
  /\ calls < MaxCalls
  /\ calls' = calls + 1
  /\ prevTimeout' = timeout
  /\ caller' \in Callers
  /\ kind' \in KindsOf(caller')
  /\ timeout' \in TimeoutArgsOf(caller')
  /\ w_min_count' \in IF kind' = "count" THEN 0..MaxCount ELSE {1}
  /\ early' \in IF kind' = "count" THEN 0..MaxCount ELSE 0..1
  /\ late' \in IF kind' = "count" THEN 0..MaxCount ELSE 0..1
  /\ arrival' \in 0..(PollsPerSecond + 1)
  /\ wtimeout' = TimeoutOr(timeout', self_timeout)
  /\ self_timeout' = TimeoutAfterCall(self_timeout, wtimeout')
  /\ elapsed' = 0
  /\ polls' = 0
  /\ wresult' = "none"
  /\ found' = 0
  /\ wreturn' = "none"
  /\ wpc' = "poll"
  /\ UNCHANGED <<vars, actVars, restVars>>

\* One poll of wait.until(...), and for the count wait the test of the
\* list it returns.
Poll ==
  /\ wpc = "poll"
  /\ polls' = polls + 1
  /\ LET n == CountAt(elapsed)
     IN  IF Truthy(n)
           THEN /\ wpc' = "return"
                /\ IF EnoughElements(kind, n, w_min_count)
                     THEN wresult' = "ok" /\ found' = n
                     ELSE wresult' = "TimeoutException" /\ found' = 0
           ELSE /\ wpc' = "sleep"
                /\ UNCHANGED <<wresult, found>>
  /\ UNCHANGED <<self_timeout, calls, caller, kind, timeout, w_min_count,
                 early, late, arrival, elapsed, wtimeout, wreturn,
                 prevTimeout>>
  /\ UNCHANGED <<vars, actVars, restVars>>

\* until() sleeps one poll interval, then gives up once the timeout is past.
Sleep ==
  /\ wpc = "sleep"
  /\ elapsed' = elapsed + 1
  /\ IF elapsed' > PollsPerSecond * wtimeout
       THEN wpc' = "return" /\ wresult' = "TimeoutException"
       ELSE wpc' = "poll" /\ UNCHANGED wresult
  /\ UNCHANGED <<self_timeout, calls, caller, kind, timeout, w_min_count,
                 early, late, arrival, wtimeout, polls, found, wreturn,
                 prevTimeout>>
  /\ UNCHANGED <<vars, actVars, restVars>>

\* The call ends: the wait returns or re-raises, the check turns the
\* outcome into a boolean.
Return ==
  /\ wpc = "return"
  /\ wreturn' = ReturnOf(caller, wresult)
  /\ wpc' = "done"
  /\ UNCHANGED <<self_timeout, calls, caller, kind, timeout, w_min_count,
                 early, late, arrival, elapsed, wtimeout, polls, wresult,
                 found, prevTimeout>>
  /\ UNCHANGED <<vars, actVars, restVars>>

NextWait == WaitCall \/ Poll \/ Sleep \/ Return

SpecWait == InitWait /\ [][NextWait]_allVars


\* ===================================================================
\* Page-object actions (pageobjects/*.py)
\* ===================================================================

MaxActions == 2

Probes == {"check_marketing_opt_in", "select_size_if_available",
           "select_quick_add_size_if_available", "close_klaviyo_popup"}

Central == {"navigate_to", "click_pay_button"}

Ops == Probes \cup Central \cup {"find_and_click_product", "fill_checkout_form"}

\* What a driver call or a wait made by an action can end with.
Outcomes(call) ==
  CASE call = "is_element_visible" -> {"True", "False"}
    [] call = "wait_for_element_clickable" -> {"ok", "TimeoutException"}
    [] call = "wait_for_element_present" -> {"ok", "TimeoutException"}
    [] call = "is_selected" -> {"True", "False"}
    [] call = "click" -> {"ok", "ElementClickInterceptedException",
                           "StaleElementReferenceException"}
    [] call = "get" -> {"ok", "WebDriverException"}
    [] call = "page_load" -> {"ok", "TimeoutException"}
    [] call = "scroll_to_element" -> {"ok", "StaleElementReferenceException"}
    [] call = "find_product_by_name" -> {"ok", "NoSuchElementException",
                                          "TimeoutException"}
    [] call = "find_element" -> {"ok", "NoSuchElementException",
                                  "StaleElementReferenceException"}
    [] call = "until_clickable" -> {"ok", "TimeoutException",
                                     "StaleElementReferenceException"}

IsException(out) == out \notin {"ok", "True", "False"}

\* click_element: wait_for_element_clickable(locator, timeout), then click()
click_element == <<"wait_for_element_clickable", "click">>

\* The calls of one find-then-click attempt.
FindThenClick == <<"find_product_by_name", "find_element",
                   "scroll_to_element", "until_clickable", "click">>

\* Mutant: every failure of the first attempt is retried.
RetriesOnAny(exc) == TRUE

\* except StaleElementReferenceException: retry once
RetriesOn(exc) == exc = "StaleElementReferenceException"

\* except Exception as e: raise NoSuchElementException(...)
Wrapped(exc) == "NoSuchElementException"

\* except Exception as e: logger.warning(...) in wait_for_page_load
PageLoadSwallows(exc) == TRUE

\* The test flow with no action called yet.
InitAct ==
  /\ WaitUnused
  /\ ActStart
  /\ checkbox \in {"absent", "unselected", "selected"}
  /\ SearchIdle
  /\ RestIdle

\* The action returns ret, or raises exc.
Ends(exc, ret) ==
  /\ apc' = 0
  /\ aexc' = exc
  /\ aret' = ret

\* The action goes on with its call p.
Goes(p) ==
  /\ apc' = p
  /\ UNCHANGED <<aexc, aret>>

\* The outcome of a call is recorded: the first exception raised inside the
\* action.
Noted(out) ==
  failure' = IF IsException(out) /\ failure = "none" THEN out ELSE failure

\* The test flow calls an action; it stops at the first action that raises.
CallAction ==
  /\ apc = 0
  /\ aexc = "none"
  /\ actions < MaxActions
  /\ actions' = actions + 1
  /\ op' \in Ops
  /\ apc' = 1
  /\ attempts' = IF op' = "find_and_click_product" THEN 1 ELSE 0
  /\ failure' = "none"
  /\ firstExc' = "none"
  /\ aexc' = "none"
  /\ aret' = "none"
  /\ cbClicks' = 0
  /\ probed' = "none"
  /\ steps' = <<>>
  /\ UNCHANGED checkbox
  /\ UNCHANGED <<vars, waitVars, restVars>>

\* What every step of an action other than find_and_click_product leaves
\* alone.
ActFrame ==
  /\ UNCHANGED <<op, actions, attempts, firstExc>>
  /\ UNCHANGED <<checkbox, cbClicks, probed, steps>>
  /\ UNCHANGED <<vars, waitVars, restVars>>

\* What the marketing checkbox answers to a call of check_marketing_opt_in:
\* an absent checkbox is never visible, is_selected() tells its state.
CheckboxAnswers(call) ==
  CASE call = "is_element_visible" ->
         IF checkbox = "absent" THEN {"False"} ELSE {"True", "False"}
    [] call = "is_selected" ->
         {IF checkbox = "selected" THEN "True" ELSE "False"}
    [] OTHER -> Outcomes(call)

\* A click on a checkbox toggles it.
Clicked(c) == IF c = "selected" THEN "unselected" ELSE "selected"

\* Mutant: the checkbox is clicked whatever its state.
ClicksAlways(selected) == TRUE

\* if not checkbox.is_selected(): checkbox.click()
ClicksWhen(selected) == ~selected

\* CheckoutPage.check_marketing_opt_in
CheckMarketingOptIn ==
  /\ op = "check_marketing_opt_in"
  /\ apc > 0
  /\ LET call == <<"is_element_visible", "wait_for_element_clickable",
                   "is_selected", "click">>[apc]
     IN  \E out \in CheckboxAnswers(call) :
           /\ Noted(out)
           /\ CASE IsException(out) -> Ends(out, "none")
                [] call = "is_element_visible" /\ out = "False" ->
                     Ends("none", "None")
                [] call = "is_selected" /\ ~ClicksWhen(out = "True") ->
                     Ends("none", "None")
                [] call = "click" /\ out = "ok" -> Ends("none", "None")
                [] OTHER -> Goes(apc + 1)
           /\ probed' = IF call = "is_element_visible" THEN out ELSE probed
           /\ IF call = "click" /\ out = "ok"
                THEN checkbox' = Clicked(checkbox) /\ cbClicks' = cbClicks + 1
                ELSE UNCHANGED <<checkbox, cbClicks>>
  /\ UNCHANGED <<op, actions, attempts, firstExc, steps>>
  /\ UNCHANGED <<vars, waitVars, restVars>>

\* The steps of fill_checkout_form, in the order of its body.
FormSteps == <<"enter_email", "check_marketing_opt_in", "select_country",
               "enter_last_name", "enter_first_name", "enter_postal_code",
               "select_postal_code_option", "enter_phone",
               "select_phone_country_code">>

\* How a step of fill_checkout_form can go inside.
StepOutcomes(st) ==
  CASE st = "select_postal_code_option" ->
         {"match", "no_match", "TimeoutException",
          "StaleElementReferenceException"}
    [] st \in {"select_country", "select_phone_country_code"} ->
         {"ok", "TimeoutException", "NoSuchElementException"}
    [] OTHER -> {"ok", "TimeoutException"}

\* Mutant: select_postal_code_option lets its errors out.
PostalOptionCatchesNothing(exc) == FALSE

\* select_postal_code_option: except Exception as e: ...; return False
PostalOptionCatches(exc) == TRUE

\* What a step gives fill_checkout_form: select_postal_code_option returns
\* True or False, the other steps return or raise.
StepResult(st, inner) ==
  IF st # "select_postal_code_option" THEN inner
  ELSE IF inner = "match" THEN "True"
  ELSE IF inner = "no_match" THEN "False"
  ELSE IF PostalOptionCatches(inner) THEN "False" ELSE inner

\* CheckoutPage.fill_checkout_form: one step of its body.  The value
\* select_postal_code_option returns is not looked at.
FillCheckoutForm ==
  /\ op = "fill_checkout_form"
  /\ apc > 0
  /\ LET st == FormSteps[apc]
     IN  \E inner \in StepOutcomes(st) :
           LET out == StepResult(st, inner)
           IN  /\ steps' = Append(steps, st)
               /\ failure' = IF inner \in {"TimeoutException",
                                           "NoSuchElementException",
                                           "StaleElementReferenceException"}
                                  /\ failure = "none"
                               THEN inner ELSE failure
               /\ IF IsException(out) THEN Ends(out, "none")
                  ELSE IF apc = Len(FormSteps) THEN Ends("none", "None")
                  ELSE Goes(apc + 1)
  /\ UNCHANGED <<op, actions, attempts, firstExc, checkbox, cbClicks, probed>>
  /\ UNCHANGED <<vars, waitVars, restVars>>

\* if self.is_element_visible(size_locator, timeout=3): try click_element,
\* return True; except Exception: return False; else return False
SelectSize(o) ==
  /\ op = o
  /\ apc > 0
  /\ LET call == (<<"is_element_visible">> \o click_element)[apc]
     IN  \E out \in Outcomes(call) :
           /\ Noted(out)
           /\ CASE IsException(out) -> Ends("none", "False")
                [] call = "is_element_visible" /\ out = "False" ->
                     Ends("none", "False")
                [] call = "click" /\ out = "ok" -> Ends("none", "True")
                [] OTHER -> Goes(apc + 1)
  /\ ActFrame

\* ProductPage.select_size_if_available
SelectSizeIfAvailable == SelectSize("select_size_if_available")

\* ProductPage.select_quick_add_size_if_available
SelectQuickAddSizeIfAvailable ==
  SelectSize("select_quick_add_size_if_available")

\* HomePage.close_klaviyo_popup
CloseKlaviyoPopup ==
  /\ op = "close_klaviyo_popup"
  /\ apc > 0
  /\ LET call == (<<"is_element_visible">> \o click_element)[apc]
     IN  \E out \in Outcomes(call) :
           /\ Noted(out)
           /\ CASE IsException(out) -> Ends("none", "False")
                [] call = "is_element_visible" /\ out = "False" ->
                     Ends("none", "False")
                [] call = "click" /\ out = "ok" -> Ends("none", "True")
                [] OTHER -> Goes(apc + 1)
  /\ ActFrame

\* BasePage.navigate_to: self.driver.get(url); wait_for_page_load(self.driver)
NavigateTo ==
  /\ op = "navigate_to"
  /\ apc > 0
  /\ LET call == <<"get", "page_load">>[apc]
     IN  \E out \in Outcomes(call) :
           /\ Noted(out)
           /\ CASE call = "get" /\ out = "ok" -> Goes(apc + 1)
                [] call = "get" -> Ends(out, "none")
                [] call = "page_load" /\ out = "ok" -> Ends("none", "None")
                [] OTHER -> IF PageLoadSwallows(out)
                              THEN Ends("none", "None")
                              ELSE Ends(out, "none")
  /\ ActFrame

\* CheckoutPage.click_pay_button: except Exception as e: ...; raise
ClickPayButton ==
  /\ op = "click_pay_button"
  /\ apc > 0
  /\ LET call == (<<"wait_for_element_present", "scroll_to_element">>
                    \o click_element)[apc]
     IN  \E out \in Outcomes(call) :
           /\ Noted(out)
           /\ CASE IsException(out) -> Ends(out, "none")
                [] call = "click" -> Ends("none", "None")
                [] OTHER -> Goes(apc + 1)
  /\ ActFrame

\* CollectionPage.find_and_click_product: one call of an attempt.  An
\* exception of the first attempt is handled by the except clauses of the
\* try; the retry runs inside the handler of the stale-element error, where
\* no except clause of that try applies.
FindAndClickProduct ==
  /\ op = "find_and_click_product"
  /\ apc > 0
  /\ \E out \in Outcomes(FindThenClick[apc]) :
       /\ Noted(out)
       /\ IF ~IsException(out)
            THEN /\ IF apc = Len(FindThenClick)
                      THEN Ends("none", "None")
                      ELSE Goes(apc + 1)
                 /\ UNCHANGED <<attempts, firstExc>>
            ELSE IF attempts = 1
              THEN /\ firstExc' = out
                   /\ IF RetriesOn(out)
                        THEN attempts' = 2 /\ Goes(1)
                        ELSE Ends(Wrapped(out), "none") /\ UNCHANGED attempts
              ELSE /\ Ends(out, "none")
                   /\ UNCHANGED <<attempts, firstExc>>
  /\ UNCHANGED <<op, actions>>
  /\ UNCHANGED <<checkbox, cbClicks, probed, steps>>
  /\ UNCHANGED <<vars, waitVars, restVars>>

NextAct ==
  \/ CallAction
  \/ CheckMarketingOptIn
  \/ SelectSizeIfAvailable
  \/ SelectQuickAddSizeIfAvailable
  \/ CloseKlaviyoPopup
  \/ NavigateTo
  \/ ClickPayButton
  \/ FindAndClickProduct
  \/ FillCheckoutForm

SpecAct == InitAct /\ [][NextAct]_allVars

\* ===================================================================
\* Properties of WaitUtils
\* ===================================================================

\* The predicate of a wait of kind k with minimum count m, on n matching
\* elements.
Holds(k, n, m) == IF k = "count" THEN n >= m ELSE n >= 1

\* The predicate of the running call at time t after the call.
HoldsAt(t) == Holds(kind, CountAt(t), w_min_count)

\* The call has ended.
Ended == wpc = "done"

\* The last poll interval that starts within the timeout of the call.
Deadline == PollsPerSecond * wtimeout

\* C11 as stated: a wait whose predicate is false at every poll raises its
\* timeout error, not before the timeout has elapsed and not later than one
\* poll interval after it.
C11_TimeoutNotBeforeTimeout ==
  (Ended /\ caller = "wait" /\ \A t \in 0..(Deadline + 1) : ~HoldsAt(t))
    => /\ wresult = "TimeoutException"
       /\ elapsed >= Deadline
       /\ elapsed <= Deadline + 1

\* C12 as stated: when the count reaches min_count >= 1 at a poll within the
\* timeout, the count wait returns at least min_count elements, whatever
\* the earlier polls saw.
C12_CountWaitPollsUntilEnough ==
  (Ended /\ caller = "wait" /\ kind = "count" /\ w_min_count >= 1
     /\ \E t \in 0..Deadline : HoldsAt(t))
    => wresult = "ok" /\ found >= w_min_count

\* C13 as stated: a wait whose predicate holds when it is called returns at
\* its first poll, without waiting and without raising.
C13_ReturnsAtFirstPoll ==
  (Ended /\ caller = "wait" /\ HoldsAt(0))
    => wresult = "ok" /\ polls = 1 /\ elapsed = 0

\* C14: the checks is_element_visible and is_element_present never let the
\* wait timeout out: they return True exactly when their wait succeeded,
\* which it does within its timeout, and False exactly when it timed out.
C14_ChecksReturnBooleans ==
  (Ended /\ caller # "wait")
    => /\ wreturn \in {"True", "False"}
       /\ (wreturn = "True") = (wresult = "ok")
       /\ (wreturn = "False") = (wresult = "TimeoutException")
       /\ wresult = "ok" => found >= 1 /\ elapsed <= Deadline
       /\ wresult = "TimeoutException" => elapsed > Deadline

\* C14 witness: a check whose wait timed out has returned False.
C14_Witness ==
  /\ Ended
  /\ caller = "is_element_visible"
  /\ wresult = "TimeoutException"
  /\ wreturn = "False"

\* The timeout a call asks for: its timeout argument when one is given.
Given(t, default) == IF t = <<>> THEN default ELSE t[1]

\* C15 as stated: the timeout in effect is the timeout argument whenever one
\* is supplied, 0 included, and the default of the instance otherwise.
C15_OverrideAlwaysInEffect ==
  wpc # "idle" => wtimeout = Given(timeout, self_timeout)

\* C16: no call changes the default of the instance, and a call without a
\* timeout argument runs with that default, whatever the calls before it
\* were given and however they ended.
C16_TimeoutsArePerCall ==
  /\ [](wpc # "idle" /\ timeout = <<>> => wtimeout = self_timeout)
  /\ [][self_timeout' = self_timeout]_allVars

\* C16 witness: after a call with a timeout argument, a call without one
\* has run for the whole default of the instance and timed out.
C16_Witness ==
  /\ Ended
  /\ calls = 2
  /\ prevTimeout = <<1>>
  /\ timeout = <<>>
  /\ wresult = "TimeoutException"
  /\ elapsed = PollsPerSecond * self_timeout + 1


\* ===================================================================
\* Properties of the page-object actions
\* ===================================================================

\* The action called last has ended.
ActionEnded == op # "none" /\ apc = 0

\* C17 as stated: an action that probes optional UI never fails on a wait
\* timeout: when nothing but a wait timeout went wrong inside it, it
\* returns normally.
C17_ProbesNeverFailOnTimeout ==
  (ActionEnded /\ op \in Probes /\ failure \in {"none", "TimeoutException"})
    => aexc = "none" /\ aret \in {"None", "True", "False"}

\* C18 as stated: when something fails inside navigate_to or
\* click_pay_button, the page that never finishes loading included, the
\* caller receives that same error.
C18_CentralActionsPropagate ==
  (ActionEnded /\ op \in Central /\ failure # "none") => aexc = failure

\* C19: find_and_click_product makes at most two find-then-click attempts;
\* the second is made exactly when the first raised a stale-element error;
\* no attempt follows any other failure of the first attempt or a failure
\* of the second.
C19_OneRetryOnlyForStale ==
  /\ [](op = "find_and_click_product"
          => /\ attempts \in 1..2
             /\ (attempts = 2) = (firstExc = "StaleElementReferenceException")
             /\ firstExc \notin {"none", "StaleElementReferenceException"}
                  => apc = 0
             /\ aexc # "none" => apc = 0)
  /\ [][attempts' > attempts /\ op' = op
          => /\ attempts = 1
             /\ attempts' = 2
             /\ firstExc = "none"
             /\ firstExc' = "StaleElementReferenceException"]_allVars

\* C19 witness: the first attempt raised a stale-element error and the
\* second attempt clicked the product.
C19_Witness ==
  /\ ActionEnded
  /\ op = "find_and_click_product"
  /\ attempts = 2
  /\ firstExc = "StaleElementReferenceException"
  /\ aexc = "none"
  /\ aret = "None"

\* C20 as stated: whenever find_and_click_product fails, the error it
\* raises is NoSuchElementException.
C20_FailsWithNoSuchElement ==
  (ActionEnded /\ op = "find_and_click_product" /\ aexc # "none")
    => aexc = "NoSuchElementException"


\* ===================================================================
\* Further properties of find_product_by_name
\* ===================================================================

\* C29: the requested scroll offset depends on the iteration count only: it
\* is 400 times the number of completed scan iterations at the head of the
\* loop, whether or not the iterations found item nodes, it grows by 400 at
\* a time, never exceeds 40000, and owes nothing to the height of the page
\* or to the offset the browser reports.
C29_OffsetFollowsIterations ==
  /\ [](/\ scroll_position = scroll_amount * fwdScrolls
        /\ scroll_position <= scroll_amount * max_scrolls
        /\ pc = "query" => scroll_position = scroll_amount * scroll_count
        /\ pc \in {"noprod_wait", "count_wait"}
             => scroll_position = scroll_amount * iterations)
  /\ [][scroll_position' # scroll_position
          => scroll_position' = scroll_position + scroll_amount]_vars

\* C29 witness: the browser has clamped the offset below the requested one,
\* after iterations with and without item nodes.
C29_Witness ==
  /\ pc = "query"
  /\ scroll_count >= 2
  /\ offset < scroll_position
  /\ scroll_position = scroll_amount * scroll_count
  /\ rerenders > 0


\* ===================================================================
\* Properties of the checkout form
\* ===================================================================

\* C27: check_marketing_opt_in never deselects the marketing checkbox and
\* is idempotent: a checkbox found selected is not clicked, the checkbox is
\* clicked at most once and only to select it, it is selected after every
\* successful call that saw it, and a call on a selected checkbox, such as
\* the second of two calls in a row, changes nothing.
C27_OptInIsIdempotent ==
  /\ [](/\ cbClicks \in 0..1
        /\ cbClicks = 1 => checkbox = "selected"
        /\ (ActionEnded /\ op = "check_marketing_opt_in" /\ aexc = "none"
              /\ probed = "True") => checkbox = "selected")
  /\ [][/\ checkbox = "selected" => checkbox' = "selected"
        /\ cbClicks' > cbClicks => checkbox = "unselected"
        /\ (op = "check_marketing_opt_in" /\ apc > 0
              /\ checkbox = "selected")
             => checkbox' = checkbox /\ cbClicks' = cbClicks]_allVars

\* C27 witness: a second action of the flow, check_marketing_opt_in, has
\* found the checkbox visible and selected and has returned without a click.
C27_Witness ==
  /\ ActionEnded
  /\ actions = 2
  /\ op = "check_marketing_opt_in"
  /\ probed = "True"
  /\ aexc = "none"
  /\ cbClicks = 0
  /\ checkbox = "selected"

\* C30: fill_checkout_form runs its steps in the fixed order; a step that
\* fails, other than the selection of the postal-code option, ends the
\* form there; whatever the selection of the postal-code option met, the
\* phone steps are run after it.
C30_FormOrderAndPostalOption ==
  /\ [](op = "fill_checkout_form"
          => /\ Len(steps) <= Len(FormSteps)
             /\ steps = SubSeq(FormSteps, 1, Len(steps))
             /\ apc > 0 => Len(steps) = apc - 1 /\ aexc = "none"
             /\ (ActionEnded /\ aexc = "none") => steps = FormSteps
             /\ (ActionEnded /\ aexc # "none")
                  => steps[Len(steps)] # "select_postal_code_option"
             /\ (ActionEnded /\ Len(steps) >= 7) => Len(steps) >= 8)
  /\ [][aexc # "none" => steps' = steps]_allVars

\* C30 witness: the selection of the postal-code option met an error, and
\* the form was filled to its last step.
C30_Witness ==
  /\ ActionEnded
  /\ op = "fill_checkout_form"
  /\ failure = "StaleElementReferenceException"
  /\ aexc = "none"
  /\ steps = FormSteps


\* ===================================================================
\* validate_test_data (utils/helpers.py)
\* ===================================================================

MaxLen == 2

\* Some of the keys of TEST_DATA_KEYS, and a key outside them.
RequiredKeys == {"userEmail", "productName", "phone"}
RecordKeys == RequiredKeys \cup {"country"}

\* Values of a record: empty, null, or some text.
Values == {"", "null", "x"}

\* The records: dictionaries over some of the keys.
Records == UNION {[D -> Values] : D \in SUBSET RecordKeys}

\* The lists of required keys.
KeyLists == UNION {[1..n -> RequiredKeys] : n \in 0..MaxLen}

\* Mutant: a key with an empty or null value counts as missing.
KeyInWithValue(key, td) == key \in DOMAIN td /\ td[key] \notin {"", "null"}

\* key in test_data
KeyIn(key, td) == key \in DOMAIN td

\* missing_keys = [key for key in required_keys if key not in test_data]
missing_keys(td, rk) == SelectSeq(rk, LAMBDA key : ~KeyIn(key, td))

\* if missing_keys: return False; return True
validate_test_data(td, rk) ==
  IF missing_keys(td, rk) # <<>> THEN "False" ELSE "True"

\* validate_test_data(test_data, required_keys) is called.
InitVal ==
  /\ test_data \in Records
  /\ required_keys \in KeyLists
  /\ given_data = test_data
  /\ vpc = "call"
  /\ vresult = "none"
  /\ RunIdle
  /\ CfgIdle
  /\ WaitUnused
  /\ ActIdle
  /\ SearchIdle

\* The call runs and returns; it assigns nothing to its arguments.
ValidateTestData ==
  /\ vpc = "call"
  /\ vresult' = validate_test_data(test_data, required_keys)
  /\ vpc' = "done"
  /\ UNCHANGED <<test_data, required_keys, given_data>>
  /\ UNCHANGED <<vars, waitVars, actVars, runVars, cfgVars>>

NextVal == ValidateTestData

SpecVal == InitVal /\ [][NextVal]_allVars

\* C23: validate_test_data returns True exactly when every required key is
\* a key of the record and False otherwise, whatever the values are; it
\* always returns a boolean and leaves the record as it was.
C23_ValidatesKeysOnly ==
  vpc = "done"
    => /\ vresult \in {"True", "False"}
       /\ (vresult = "True")
            = (\A i \in 1..Len(required_keys) :
                 required_keys[i] \in DOMAIN given_data)
       /\ test_data = given_data

\* C23 witness: a record whose required keys are all there, one of them
\* with an empty value, was found valid.
C23_Witness ==
  /\ vpc = "done"
  /\ vresult = "True"
  /\ Len(required_keys) = 2
  /\ required_keys[1] # required_keys[2]
  /\ test_data[required_keys[1]] = ""


\* ===================================================================
\* ConfigManager (config/config_manager.py)
\* ===================================================================

MaxCfgCalls == 2

\* Options of section [Test] read with getint, and the values a file gives.
Options == {"default_timeout", "short_timeout"}
OptionValues == {7, 15}

\* What a config.ini can hold: some of the options, each with a value.
Settings == UNION {[D -> OptionValues] : D \in SUBSET Options}

\* The file is missing, or exists with some settings.
Files == {<<>>} \cup {<<c>> : c \in Settings}

\* fallback of each convenience property
Fallback(option) == IF option = "default_timeout" THEN 10 ELSE 5

\* self._config.getint(section, option, fallback=fallback)
getint(cfg, option) ==
  IF cfg = <<>>
    THEN [exc |-> "AttributeError", value |-> 0]
    ELSE [exc |-> "none",
          value |-> IF option \in DOMAIN cfg[1] THEN cfg[1][option]
                                                ELSE Fallback(option)]

\* cls._instance = super().__new__(cls), assigned before _load_config()
KeepsInstance(exists) == "obj"

InitCfg ==
  /\ config_file \in Files
  /\ instance = "None"
  /\ loaded_config = <<>>
  /\ cfgCalls = 0
  /\ cfgGot = "none"
  /\ cfgReads = 0
  /\ cfgValue = [exc |-> "none", value |-> 0]
  /\ RunIdle
  /\ ValIdle
  /\ WaitUnused
  /\ ActIdle
  /\ SearchIdle

CfgFrame == UNCHANGED <<vars, waitVars, actVars, runVars, valVars>>

\* ConfigManager(): __new__ and, for the first instance, _load_config.
NewConfigManager ==
  /\ cfgCalls < MaxCfgCalls
  /\ cfgCalls' = cfgCalls + 1
  /\ IF instance = "None"
       THEN IF config_file = <<>>
              THEN /\ instance' = KeepsInstance(FALSE)
                   /\ cfgGot' = "FileNotFoundError"
                   /\ UNCHANGED <<loaded_config, cfgReads>>
              ELSE /\ instance' = KeepsInstance(TRUE)
                   /\ loaded_config' = config_file
                   /\ cfgReads' = cfgReads + 1
                   /\ cfgGot' = "returned"
       ELSE /\ cfgGot' = "returned"
            /\ UNCHANGED <<instance, loaded_config, cfgReads>>
  /\ UNCHANGED <<config_file, cfgValue>>
  /\ CfgFrame

\* A caller that obtained the instance reads one of its timeouts.
GetTimeout ==
  /\ cfgGot = "returned"
  /\ \E option \in Options : cfgValue' = getint(loaded_config, option)
  /\ UNCHANGED <<config_file, instance, loaded_config, cfgCalls, cfgGot,
                 cfgReads>>
  /\ CfgFrame

\* The environment: config.ini is created, rewritten or removed.
WriteConfigFile ==
  /\ \E f \in Files : f # config_file /\ config_file' = f
  /\ UNCHANGED <<instance, loaded_config, cfgCalls, cfgGot, cfgReads,
                 cfgValue>>
  /\ CfgFrame

NextCfg == NewConfigManager \/ GetTimeout \/ WriteConfigFile

SpecCfg == InitCfg /\ [][NextCfg]_allVars

\* C28: a ConfigManager() call that returns hands out an instance whose
\* settings are loaded, also after a first call that failed on a missing
\* file. The code keeps the instance of the failed call and returns it.
C28_ReturnedInstanceIsLoaded ==
  cfgGot = "returned" => loaded_config # <<>>


\* ===================================================================
\* The test runner: browser_instance, the test body, the report hook
\* (conftest.py, test_bluebella.py)
\* ===================================================================

MaxRecords == 2

\* The statements of test_bluebella_e2e_shopping_flow that act, in the
\* order of the source; complete_checkout_with_klarna is its two calls.
BodySteps ==
  << "validate_test_data",
     "navigate_to",
     "close_klaviyo_popup",
     "assert_title",
     "login",
     "assert_is_signed_in",
     "navigate_back_to_homepage",
     "hover_to_menu",
     "assert_collection_url",
     "sort_by_text",
     "find_and_click_product",
     "assert_product_url",
     "select_size_if_available_38",
     "select_size_if_available_D",
     "add_to_cart_and_close_drawer",
     "click_last_complete_the_look_item",
     "select_quick_add_size_if_available",
     "proceed_to_checkout",
     "assert_checkout_url",
     "fill_checkout_form",
     "select_klarna_payment",
     "click_pay_button" >>

\* The statements that are assert statements.
Asserts ==
  {"validate_test_data", "assert_title", "assert_is_signed_in",
   "assert_collection_url", "assert_product_url", "assert_checkout_url"}

Upsell == "click_last_complete_the_look_item"

\* Mutant: assert statements are compiled away.
assert_ignored(cond) == "ok"

\* assert cond, message
assert_stmt(cond) == IF cond THEN "ok" ELSE "AssertionError"

\* Mutant: only a timeout of the upsell is tolerated.
ToleratesTimeoutOnly(exc) == exc = "TimeoutException"

\* except (TimeoutException, NoSuchElementException) around the upsell
Tolerates(exc) == exc \in {"TimeoutException", "NoSuchElementException"}

\* How a statement can end. An assert records the value of its condition;
\* the validation's condition is fixed by the record.
StepEnds(st, valid) ==
  IF st = "validate_test_data" THEN {IF valid THEN "True" ELSE "False"}
  ELSE IF st \in Asserts THEN {"True", "False"}
  ELSE IF st = Upsell
    THEN {"ok", "TimeoutException", "NoSuchElementException",
          "ElementClickInterceptedException"}
  ELSE {"ok", "WebDriverException"}

\* What the statement raises into the body: "ok" when it raises nothing.
RaisedBy(st, end) ==
  IF st \in Asserts THEN assert_stmt(end = "True")
  ELSE IF end = "ok" THEN "ok"
  ELSE IF st = Upsell /\ Tolerates(end) THEN "ok"
  ELSE "exception"

\* Mutant: only a failed assertion counts as a failure of the call.
FailedOnAssertOnly(o) == o = "AssertionError"

\* report.failed and not xfail, for the call phase of a test with no
\* xfail marker
ReportFailed(o) == o \in {"AssertionError", "exception"}

\* The session: the records of the data file and the command line options.
InitRun ==
  /\ recValid \in UNION {[1..n -> BOOLEAN] : n \in 1..MaxRecords}
  /\ browser_name \in {"chrome", "firefox"}
  /\ headless \in BOOLEAN
  /\ rec = 0
  /\ rpc = "next"
  /\ driver = "None"
  /\ proc = "none"
  /\ quits = 0
  /\ body = 0
  /\ trail = <<>>
  /\ outcome = "none"
  /\ upsell = "none"
  /\ shot = "none"
  /\ shotProc = "none"
  /\ verdicts = <<>>
  /\ leaks = 0
  /\ ValIdle
  /\ CfgIdle
  /\ WaitUnused
  /\ ActIdle
  /\ SearchIdle

RunFrame ==
  /\ UNCHANGED <<recValid, browser_name, headless>>
  /\ UNCHANGED <<vars, waitVars, actVars, valVars, cfgVars>>

\* The runner takes the next record; browser_instance starts with
\* driver = None.
StartRun ==
  /\ rpc = "next"
  /\ rec < Len(recValid)
  /\ rec' = rec + 1
  /\ rpc' = "create"
  /\ driver' = "None"
  /\ proc' = "none"
  /\ quits' = 0
  /\ body' = 1
  /\ trail' = <<>>
  /\ outcome' = "none"
  /\ upsell' = "none"
  /\ shot' = "none"
  /\ shotProc' = "none"
  /\ UNCHANGED <<verdicts, leaks>>
  /\ RunFrame

\* webdriver.Chrome(options=options) or webdriver.Firefox(options=options)
CreateDriver ==
  /\ rpc = "create"
  /\ \E ok \in BOOLEAN :
       IF ok
         THEN /\ proc' = "running"
              /\ rpc' = "window"
              /\ UNCHANGED outcome
         ELSE /\ outcome' = "setup_error"
              /\ rpc' = "finally"
              /\ UNCHANGED proc
  /\ UNCHANGED <<rec, driver, quits, body, trail, upsell, shot, shotProc,
                 verdicts, leaks>>
  /\ RunFrame

\* Whether the create function touches the window before it returns.
SetsWindow == browser_name = "chrome" \/ ~headless

\* driver.maximize_window() or driver.set_window_size(1920, 1080), then
\* return driver; on an exception the create function re-raises and the
\* fixture's driver stays None.
WindowStep ==
  /\ rpc = "window"
  /\ \E ok \in (IF SetsWindow THEN BOOLEAN ELSE {TRUE}) :
       IF ok
         THEN /\ driver' = "set"
              /\ rpc' = "implicit"
              /\ UNCHANGED outcome
         ELSE /\ outcome' = "setup_error"
              /\ rpc' = "finally"
              /\ UNCHANGED driver
  /\ UNCHANGED <<rec, proc, quits, body, trail, upsell, shot, shotProc,
                 verdicts, leaks>>
  /\ RunFrame

\* driver.implicitly_wait(config.implicit_wait), then yield driver
ImplicitWait ==
  /\ rpc = "implicit"
  /\ \E ok \in BOOLEAN :
       IF ok
         THEN /\ rpc' = "body"
              /\ UNCHANGED outcome
         ELSE /\ outcome' = "setup_error"
              /\ rpc' = "finally"
  /\ UNCHANGED <<rec, driver, proc, quits, body, trail, upsell, shot,
                 shotProc, verdicts, leaks>>
  /\ RunFrame

\* One statement of the test body.
BodyStep ==
  /\ rpc = "body"
  /\ LET st == BodySteps[body] IN
     \E end \in StepEnds(st, recValid[rec]) :
       LET r == RaisedBy(st, end) IN
       /\ trail' = Append(trail, [step |-> st, end |-> end])
       /\ upsell' = IF st = Upsell THEN end ELSE upsell
       /\ IF r = "ok"
            THEN IF body = Len(BodySteps)
                   THEN /\ outcome' = "passed"
                        /\ rpc' = "report"
                        /\ UNCHANGED body
                   ELSE /\ body' = body + 1
                        /\ UNCHANGED <<outcome, rpc>>
            ELSE /\ outcome' = r
                 /\ rpc' = "report"
                 /\ UNCHANGED body
  /\ UNCHANGED <<rec, driver, proc, quits, shot, shotProc, verdicts, leaks>>
  /\ RunFrame

\* pytest_runtest_makereport for the call phase: _take_screenshot when the
\* call failed and the fixture's driver is there; an exception while the
\* screenshot is taken is swallowed.
MakeReport ==
  /\ rpc = "report"
  /\ IF ReportFailed(outcome) /\ driver = "set"
       THEN /\ shot' \in {"saved", "failed"}
            /\ shotProc' = proc
       ELSE UNCHANGED <<shot, shotProc>>
  /\ verdicts' = Append(verdicts,
                        IF outcome = "passed" THEN "passed" ELSE "failed")
  /\ rpc' = "finally"
  /\ UNCHANGED <<rec, driver, proc, quits, body, trail, outcome, upsell,
                 leaks>>
  /\ RunFrame

\* finally: if driver: driver.quit(). A failed setup is reported as an
\* error of the record.
Finally ==
  /\ rpc = "finally"
  /\ IF driver = "set"
       THEN /\ quits' = quits + 1
            /\ proc' = "quit"
            /\ UNCHANGED leaks
       ELSE /\ leaks' = leaks + (IF proc = "running" THEN 1 ELSE 0)
            /\ UNCHANGED <<quits, proc>>
  /\ verdicts' = IF outcome = "setup_error"
                   THEN Append(verdicts, "error") ELSE verdicts
  /\ rpc' = "next"
  /\ UNCHANGED <<rec, driver, body, trail, outcome, upsell, shot, shotProc>>
  /\ RunFrame

\* No record is left.
EndSession ==
  /\ rpc = "next"
  /\ rec = Len(recValid)
  /\ rpc' = "finished"
  /\ UNCHANGED <<rec, driver, proc, quits, body, trail, outcome, upsell,
                 shot, shotProc, verdicts, leaks>>
  /\ RunFrame

NextRun ==
  \/ StartRun
  \/ CreateDriver
  \/ WindowStep
  \/ ImplicitWait
  \/ BodyStep
  \/ MakeReport
  \/ Finally
  \/ EndSession

SpecRun == InitRun /\ [][NextRun]_allVars


\* ---------------------------------------------------------------
\* Properties of the test runner
\* ---------------------------------------------------------------

BodyFailed == outcome \in {"AssertionError", "exception"}

RunOver == rpc \in {"next", "finished"} /\ rec > 0

\* The statement at position i of the trail let the body go on.
WentWell(i) ==
  \/ trail[i].end \in {"ok", "True"}
  \/ /\ trail[i].step = Upsell
     /\ trail[i].end \in {"TimeoutException", "NoSuchElementException"}

\* Statement name was run and ended with e.
Ran(name, e) ==
  \E i \in 1..Len(trail) : trail[i].step = name /\ trail[i].end = e

\* C21: the statements of a run happen in the fixed order of the scenario;
\* a statement runs only when every statement before it went well, so the
\* pay button is clicked only after the sign-in check and the checkout URL
\* check passed, the form was filled and the payment label was clicked;
\* after a failed assertion or an exception no further statement of the
\* run is executed.
C21_FixedOrderAndGates ==
  /\ [](/\ Len(trail) <= Len(BodySteps)
        /\ \A i \in 1..Len(trail) : trail[i].step = BodySteps[i]
        /\ \A i \in 1..(Len(trail) - 1) : WentWell(i)
        /\ (\E e \in {"ok", "WebDriverException"} : Ran("click_pay_button", e))
             => /\ Ran("assert_is_signed_in", "True")
                /\ Ran("assert_checkout_url", "True")
                /\ Ran("fill_checkout_form", "ok")
                /\ Ran("select_klarna_payment", "ok")
        /\ BodyFailed => rpc # "body" /\ ~WentWell(Len(trail)))
  /\ [][(BodyFailed /\ rec' = rec) => trail' = trail]_allVars

\* C21 witness: a run went through every statement and clicked pay.
C21_Witness ==
  /\ outcome = "passed"
  /\ Len(trail) = Len(BodySteps)
  /\ Ran("click_pay_button", "ok")

\* C22: for a record that lacks a required key no browser session is
\* started and nothing is asked of a browser. The fixture starts the
\* browser before the body validates the record.
C22_NoBrowserForInvalidRecord ==
  (rec > 0 /\ ~recValid[rec]) => proc = "none" /\ shot = "none"

\* C24: a browser process started for a run is quit exactly once by the
\* end of the run, whatever the outcome, and is not used after that. A
\* failure of the window step leaves the process running.
C24_EveryDriverQuitOnce ==
  /\ quits <= 1
  /\ leaks = 0
  /\ RunOver => proc # "running"
  /\ proc = "quit" => quits = 1
  /\ rpc \in {"body", "report"} => proc = "running"

\* C25: when the body of a run failed, a screenshot was asked of the
\* run's driver while its browser was still running, the record is marked
\* failed whether or not the screenshot could be saved, and the runner
\* goes on to the next record; at the end every record has a verdict.
C25_FailureTakesScreenshot ==
  /\ [](/\ (BodyFailed /\ rpc \in {"finally", "next", "finished"})
             => /\ shot \in {"saved", "failed"}
                /\ shotProc = "running"
                /\ Len(verdicts) = rec
                /\ verdicts[rec] = "failed"
        /\ shot # "none" => shotProc = "running" /\ BodyFailed
        /\ rpc = "report" => proc = "running" /\ quits = 0
        /\ rpc = "finished"
             => rec = Len(recValid) /\ Len(verdicts) = Len(recValid))
  /\ [][(rpc = "next" /\ rec < Len(recValid))
          => rec' = rec + 1 /\ rpc' = "create"]_allVars

\* C25 witness: the first record failed, the second ran all the same and
\* failed too, and its screenshot could not be saved.
C25_Witness ==
  /\ rec = 2
  /\ rpc = "next"
  /\ verdicts = <<"failed", "failed">>
  /\ outcome = "exception"
  /\ shot = "failed"

\* C26: when click_last_complete_the_look_item ends with a timeout or a
\* missing element, the run is not aborted there: the next statements are
\* the quick-add size selection and proceed_to_checkout.
C26_UpsellToleratedIfAbsent ==
  \A i \in 1..Len(trail) :
    (trail[i].step = Upsell
       /\ trail[i].end \in {"TimeoutException", "NoSuchElementException"})
      => /\ upsell = trail[i].end
         /\ Len(trail) = i => outcome = "none" /\ rpc = "body" /\ body = i + 1
         /\ Len(trail) > i
              => trail[i + 1].step = "select_quick_add_size_if_available"
         /\ Len(trail) > i + 1 => trail[i + 2].step = "proceed_to_checkout"

\* C26 witness: the upsell item was missing and the run proceeded to the
\* checkout.
C26_Witness ==
  /\ upsell = "NoSuchElementException"
  /\ Ran("proceed_to_checkout", "ok")

====
